---- MODULE Spec2Model ----
(***************************************************************************)
(* Buy-versus-rent calculator: the four calculations of utils.py, called   *)
(* in the order streamlit-app.py calls them (lines 86-94).                 *)
(*                                                                         *)
(* Python computes on floats.  The model computes on exact rationals       *)
(* <<numerator, denominator>> in lowest terms, so every "within rounding   *)
(* tolerance" statement is about the rounding the code itself performs     *)
(* (round(x) and round(x, 2)), not about float representation error.       *)
(***************************************************************************)
EXTENDS Integers, Sequences, FiniteSets, TLC

(* ------------------------------------------------------------------ *)
(* Exact rational arithmetic                                          *)
(* ------------------------------------------------------------------ *)
Abs(a) == IF a < 0 THEN -a ELSE a

RECURSIVE GCD(_, _)
GCD(a, b) == IF b = 0 THEN a ELSE GCD(b, a % b)

\* n/d in lowest terms with a positive denominator (d # 0)
Rat(n, d) ==
    LET g == GCD(Abs(n), Abs(d))
        s == IF d < 0 THEN -1 ELSE 1
    IN  <<s * (n \div g), s * (d \div g)>>

I(n) == <<n, 1>>
Zero == I(0)
One == I(1)

\* the outcome of a division by zero: Python raises ZeroDivisionError
Raise == <<0, 0>>

Neg(x) == <<-x[1], x[2]>>

Add(x, y) ==
    LET g == GCD(x[2], y[2])
    IN  Rat(x[1] * (y[2] \div g) + y[1] * (x[2] \div g), (x[2] \div g) * y[2])

Sub(x, y) == Add(x, Neg(y))

Mul(x, y) ==
    LET g1 == GCD(Abs(x[1]), y[2])
        g2 == GCD(Abs(y[1]), x[2])
    IN  <<(x[1] \div g1) * (y[1] \div g2), (x[2] \div g2) * (y[2] \div g1)>>

Div(x, y) ==
    IF y[1] = 0 THEN Raise
    ELSE Mul(x, IF y[1] < 0 THEN <<-y[2], -y[1]>> ELSE <<y[2], y[1]>>)

RECURSIVE Pow(_, _)
Pow(x, k) == IF k = 0 THEN One ELSE Mul(x, Pow(x, k - 1))

Less(x, y) == Sub(x, y)[1] < 0
Leq(x, y) == Sub(x, y)[1] <= 0
AbsR(x) == <<Abs(x[1]), x[2]>>

\* Python's round(x): nearest integer, a tie goes to the even neighbour
roundTruncating(x) == x[1] \div x[2]
round(x) ==
    LET f == x[1] \div x[2]
        r == x[1] - f * x[2]
    IN  IF 2 * r < x[2] THEN f
        ELSE IF 2 * r > x[2] THEN f + 1
        ELSE IF f % 2 = 0 THEN f ELSE f + 1

\* Python's round(x, 2)
round2(x) == Rat(round(Mul(x, I(100))), 100)

(* ------------------------------------------------------------------ *)
(* Bounds and input domains                                           *)
(* ------------------------------------------------------------------ *)
MaxTerm == 3

HomeCosts == {-1000, 0, 6, 1000}
DownPayments == {0, 20, 100}
InterestRates == {0, 1200}
Terms == 0 .. MaxTerm
MacroRates == {0, 25}
ClosingCosts == {0, 3}
Rents == {100, 300}
\* monthly payments a caller may pass besides the computed one
CallerPayments == {<<50, 1>>}

VARIABLES
    home_cost, down_payment, interest_rate, loan_term_years,
    pc, error, raised_in,
    monthly_payment, total_monthly_cost_buying, cost_call, cost_breakdown,
    payment_arg, remaining_balance, total_home_value, equity, payment_number, schedule,
    amortization_schedule,
    home_price_appreciation, inflation, investment_growth, closing_costs,
    rent, rent_increase, schedule_arg, summary_call,
    year, total_investment_value_rent_reinvest, summary_data, summary_df

inputs == <<home_cost, down_payment, interest_rate, loan_term_years>>
amort == <<payment_arg, remaining_balance, total_home_value, equity, payment_number, schedule>>
macro == <<home_price_appreciation, inflation, investment_growth, closing_costs,
           rent, rent_increase, schedule_arg, summary_call>>
cost == <<cost_call, cost_breakdown>>
summ == <<year, total_investment_value_rent_reinvest, summary_data, summary_df>>
vars == <<inputs, pc, error, raised_in, monthly_payment, total_monthly_cost_buying, cost, amort,
          amortization_schedule, macro, summ>>

(* ------------------------------------------------------------------ *)
(* The pure calculations                                              *)
(* ------------------------------------------------------------------ *)
loan_amount == Mul(I(home_cost), Sub(One, Div(I(down_payment), I(100))))

MonthlyInterestRate(annual_interest_rate) ==
    Div(Div(I(annual_interest_rate), I(100)), I(12))

calculate_monthly_mortgage_payment_no_interest(la, annual_interest_rate, term) ==
    Div(la, I(term * 12))

calculate_monthly_mortgage_payment(la, annual_interest_rate, term) ==
    LET monthly_interest_rate == MonthlyInterestRate(annual_interest_rate)
        number_of_payments == term * 12
        growth == Pow(Add(One, monthly_interest_rate), number_of_payments)
    IN  IF monthly_interest_rate = Zero
        THEN Div(la, I(number_of_payments))
        ELSE Div(Mul(la, Mul(monthly_interest_rate, growth)), Sub(growth, One))

calculate_monthly_cost_buying(hc, mp) ==
    LET monthly_repair_cost == Div(Mul(I(hc), <<1, 100>>), I(12))
        monthly_property_insurance == Div(Mul(I(hc), <<9, 1000>>), I(12))
        monthly_homeowners_insurance == I(200)
    IN  Add(Add(Add(mp, monthly_repair_cost), monthly_property_insurance),
            monthly_homeowners_insurance)

\* utils.py:68  number_of_payments = loan_term_years * 12
NumberOfPaymentsShort(term) == term * 12 - 1
NumberOfPayments(term) == term * 12

\* utils.py:72  total_home_value = loan_amount / (1 - down_payment_percent / 100)
TotalHomeValue(la, down_payment_percent) ==
    Div(la, Sub(One, Div(I(down_payment_percent), I(100))))

\* utils.py:73  equity = total_home_value * (down_payment_percent / 100)
InitialEquityWhole(thv, down_payment_percent) ==
    Mul(thv, I(down_payment_percent))
InitialEquity(thv, down_payment_percent) ==
    Mul(thv, Div(I(down_payment_percent), I(100)))

\* utils.py:76  interest_payment = remaining_balance * monthly_interest_rate
InterestPayment(rb, annual_interest_rate) ==
    Mul(rb, MonthlyInterestRate(annual_interest_rate))

\* utils.py:77  principal_payment = monthly_payment - interest_payment
PrincipalPaymentSwapped(mp, interest_payment) == Sub(interest_payment, mp)
PrincipalPayment(mp, interest_payment) == Sub(mp, interest_payment)

\* utils.py:80  equity_percent = (equity / total_home_value) * 100
EquityPercent(eq, thv) ==
    LET share == Div(eq, thv)
    IN  IF share = Raise THEN Raise ELSE Mul(share, I(100))

\* utils.py:81-82
YearOf(pn) == ((pn - 1) \div 12) + 1
MonthOf(pn) == ((pn - 1) % 12) + 1

\* utils.py:83-91  the emitted row
AmortizationRow(pn, principal_payment, interest_payment, rb, equity_percent) ==
    [Year |-> YearOf(pn),
     Month |-> MonthOf(pn),
     PaymentNumber |-> pn,
     PrincipalPayment |-> round(principal_payment),
     InterestPayment |-> round(interest_payment),
     RemainingBalance |-> round(rb),
     Equity |-> round2(equity_percent)]

\* (1 + (rate + inflation) / 100) ** year, the compounding of utils.py:133,140,141
Compound(rate, infl, y) ==
    Pow(Add(One, Div(I(rate + infl), I(100))), y)

\* utils.py:133
HomeValue(hc, appreciation, infl, y) == Mul(I(hc), Compound(appreciation, infl, y))

\* utils.py:135  amortization_schedule[amortization_schedule["Year"] == year]
RowsOfYear(sched, y) == SelectSeq(sched, LAMBDA row : row.Year = y)

\* utils.py:135  ...["Equity (%)"].iloc[-1]
EquityOfFirstRow(rows) == rows[1].Equity
EquityOfLastRow(rows) == rows[Len(rows)].Equity

\* utils.py:136
InvestmentValueHome(equity_percent, thv) == Mul(Div(equity_percent, I(100)), thv)

\* utils.py:137-139
AnnualCostBuyingEveryYear(tmcb, closing, hc, y) ==
    Add(Mul(tmcb, I(12)), Mul(Div(I(closing), I(100)), I(hc)))
AnnualCostBuying(tmcb, closing, hc, y) ==
    LET total_annual_cost_buying == Mul(tmcb, I(12))
    IN  IF y = 1
        THEN Add(total_annual_cost_buying, Mul(Div(I(closing), I(100)), I(hc)))
        ELSE total_annual_cost_buying

\* utils.py:140
InvestmentValueRentShrinking(dp, hc, growth, infl, y) ==
    Mul(Mul(Div(I(dp), I(100)), I(hc)), Compound(-growth, -infl, y))
InvestmentValueRent(dp, hc, growth, infl, y) ==
    Mul(Mul(Div(I(dp), I(100)), I(hc)), Compound(growth, infl, y))

\* utils.py:141
AnnualCostRenting(monthly_rent, increase, infl, y) ==
    Mul(Mul(I(monthly_rent), I(12)), Compound(increase, infl, y))

\* utils.py:130  the balance before year 1
ReinvestSeed(dp, hc) == Mul(Div(I(dp), I(100)), I(hc))

\* utils.py:144
ReinvestWithoutCarry(balance, growth, infl, savings) ==
    Add(balance, savings)
Reinvest(balance, growth, infl, savings) ==
    Add(Mul(balance, Add(One, Div(I(growth + infl), I(100)))), savings)

\* utils.py:132  range(1, loan_term_years + 1)
LastYearShort(term) == term - 1
LastYear(term) == term

(* ------------------------------------------------------------------ *)
(* Initial state: the inputs are read, nothing is computed yet        *)
(* ------------------------------------------------------------------ *)
Init ==
    /\ home_cost \in HomeCosts
    /\ down_payment \in DownPayments
    /\ interest_rate \in InterestRates
    /\ loan_term_years \in Terms
    \* an interest-bearing loan is explored over one year of payments:
    \* (1 + r)^n of a longer one leaves the 32-bit integers of TLC
    /\ interest_rate = 0 \/ loan_term_years <= 1
    /\ pc = "start"
    /\ error = "none"
    /\ raised_in = "none"
    /\ monthly_payment = Zero
    /\ total_monthly_cost_buying = Zero
    /\ cost_call = "none"
    /\ cost_breakdown = <<>>
    /\ payment_arg = Zero
    /\ remaining_balance = Zero
    /\ total_home_value = Zero
    /\ equity = Zero
    /\ payment_number = 0
    /\ schedule = <<>>
    /\ amortization_schedule = <<>>
    /\ home_price_appreciation = 0
    /\ inflation = 0
    /\ investment_growth = 0
    /\ closing_costs = 0
    /\ rent = 0
    /\ rent_increase = 0
    /\ schedule_arg = <<>>
    /\ summary_call = "none"
    /\ year = 0
    /\ total_investment_value_rent_reinvest = Zero
    /\ summary_data = <<>>
    /\ summary_df = <<>>

(* ------------------------------------------------------------------ *)
(* streamlit-app.py:87  monthly_payment = calculate_monthly_mortgage_payment(...) *)
(* ------------------------------------------------------------------ *)
CallMonthlyMortgagePayment ==
    /\ pc = "start"
    /\ LET result == calculate_monthly_mortgage_payment(loan_amount, interest_rate,
                                                        loan_term_years)
       IN  IF result = Raise
           THEN /\ pc' = "raised"
                /\ error' = "ZeroDivisionError"
                /\ raised_in' = "calculate_monthly_mortgage_payment"
                /\ UNCHANGED monthly_payment
           ELSE /\ pc' = "payment"
                /\ monthly_payment' = result
                /\ UNCHANGED <<error, raised_in>>
    /\ UNCHANGED <<inputs, cost, total_monthly_cost_buying, amort, amortization_schedule,
                   macro, summ>>

(* streamlit-app.py:89  total_monthly_cost_buying = calculate_monthly_cost_buying(...) *)
CallMonthlyCostBuying ==
    /\ pc = "payment"
    /\ total_monthly_cost_buying' = calculate_monthly_cost_buying(home_cost, monthly_payment)
    /\ cost_call' = "total"
    /\ pc' = "cost"
    /\ UNCHANGED <<inputs, cost_breakdown, error, raised_in, monthly_payment, amort, amortization_schedule,
                   macro, summ>>

(* streamlit-app.py:321 calls calculate_monthly_cost_buying(home_cost,         *)
(* monthly_payment, extended=True) and unpacks four results.  utils.py:27     *)
(* has no such parameter: the call raises TypeError, nothing is assigned.     *)
CallMonthlyCostBuyingExtended ==
    /\ pc = "schedule"
    /\ cost_call' = "extended"
    /\ pc' = "raised"
    /\ error' = "TypeError"
    /\ raised_in' = "calculate_monthly_cost_buying"
    /\ UNCHANGED <<inputs, cost_breakdown, monthly_payment, total_monthly_cost_buying,
                   amort, amortization_schedule, macro, summ>>

(* streamlit-app.py:92 calls calculate_amortization_schedule; utils.py:67-73 *)
AmortizationBegin ==
    /\ pc = "cost"
    /\ LET thv == TotalHomeValue(loan_amount, down_payment)
       IN  IF thv = Raise
           THEN /\ pc' = "raised"
                /\ error' = "ZeroDivisionError"
                /\ raised_in' = "calculate_amortization_schedule"
                /\ UNCHANGED amort
           ELSE /\ pc' = "amortizing"
                /\ payment_arg' \in {monthly_payment} \cup CallerPayments
                /\ remaining_balance' = loan_amount
                /\ total_home_value' = thv
                /\ equity' = InitialEquity(thv, down_payment)
                /\ payment_number' = 0
                /\ schedule' = <<>>
                /\ UNCHANGED <<error, raised_in>>
    /\ UNCHANGED <<inputs, cost, monthly_payment, total_monthly_cost_buying,
                   amortization_schedule, macro, summ>>

(* utils.py:75-91  one iteration of the payment loop *)
AmortizationPayment ==
    /\ pc = "amortizing"
    /\ payment_number < NumberOfPayments(loan_term_years)
    /\ LET pn == payment_number + 1
           interest_payment == InterestPayment(remaining_balance, interest_rate)
           principal_payment == PrincipalPayment(payment_arg, interest_payment)
           rb == Sub(remaining_balance, principal_payment)
           eq == Add(equity, principal_payment)
           equity_percent == EquityPercent(eq, total_home_value)
       IN  /\ payment_number' = pn
           /\ remaining_balance' = rb
           /\ equity' = eq
           /\ IF equity_percent = Raise
              THEN /\ pc' = "raised"
                   /\ error' = "ZeroDivisionError"
                   /\ raised_in' = "calculate_amortization_schedule"
                   /\ UNCHANGED schedule
              ELSE /\ schedule' = Append(schedule,
                                         AmortizationRow(pn, principal_payment,
                                                         interest_payment, rb,
                                                         equity_percent))
                   /\ UNCHANGED <<pc, error, raised_in>>
    /\ UNCHANGED <<inputs, cost, monthly_payment, total_monthly_cost_buying,
                   payment_arg, total_home_value, amortization_schedule, macro, summ>>

(* utils.py:93  return pd.DataFrame(schedule) *)
AmortizationReturn ==
    /\ pc = "amortizing"
    /\ payment_number >= NumberOfPayments(loan_term_years)
    /\ amortization_schedule' = schedule
    /\ pc' = "schedule"
    /\ UNCHANGED <<inputs, cost, error, raised_in, monthly_payment, total_monthly_cost_buying,
                   amort, macro, summ>>

(* utils.py:95,118-130  calculate_summary_metrics is called with the macro   *)
(* assumptions and a schedule; the caller may hand over a schedule that     *)
(* lacks the rows of some year.                                             *)
SummaryBegin ==
    /\ pc = "schedule"
    /\ home_price_appreciation' \in MacroRates
    /\ inflation' \in MacroRates
    /\ investment_growth' \in MacroRates
    /\ closing_costs' \in ClosingCosts
    /\ rent' \in Rents
    /\ rent_increase' \in MacroRates
    /\ \E missing \in {{}} \cup {{y} : y \in 1 .. loan_term_years} :
          schedule_arg' = SelectSeq(amortization_schedule,
                                    LAMBDA row : row.Year \notin missing)
    /\ summary_call' = "with_schedule"
    /\ total_investment_value_rent_reinvest' = ReinvestSeed(down_payment, home_cost)
    /\ year' = 0
    /\ summary_data' = <<>>
    /\ pc' = "summarizing"
    /\ UNCHANGED <<inputs, cost, error, raised_in, monthly_payment, total_monthly_cost_buying, amort,
                   amortization_schedule, summary_df>>

(* streamlit-app.py:94 and 209 call calculate_summary_metrics with the ten   *)
(* assumption inputs only.  utils.py:95 declares thirteen required          *)
(* parameters, so binding the arguments raises TypeError before the body    *)
(* runs.                                                                    *)
SummaryCallInputsOnly ==
    /\ pc = "schedule"
    /\ summary_call' = "inputs_only"
    /\ pc' = "raised"
    /\ error' = "TypeError"
    /\ raised_in' = "calculate_summary_metrics"
    /\ UNCHANGED <<inputs, cost, monthly_payment, total_monthly_cost_buying, amort,
                   amortization_schedule, home_price_appreciation, inflation,
                   investment_growth, closing_costs, rent, rent_increase,
                   schedule_arg, summ>>

(* utils.py:132-154  one iteration of the year loop *)
SummaryYear ==
    /\ pc = "summarizing"
    /\ year < LastYear(loan_term_years)
    /\ LET y == year + 1
           rows == RowsOfYear(schedule_arg, y)
       IN  IF rows = <<>>
           THEN /\ pc' = "raised"
                /\ error' = "IndexError"
                /\ raised_in' = "calculate_summary_metrics"
                /\ UNCHANGED <<year, total_investment_value_rent_reinvest,
                               summary_data>>
           ELSE LET thv == HomeValue(home_cost, home_price_appreciation, inflation, y)
                    equity_percent == EquityOfLastRow(rows)
                    total_investment_value_home ==
                        InvestmentValueHome(equity_percent, thv)
                    total_annual_cost_buying ==
                        AnnualCostBuying(total_monthly_cost_buying, closing_costs,
                                         home_cost, y)
                    total_investment_value_rent ==
                        InvestmentValueRent(down_payment, home_cost,
                                            investment_growth, inflation, y)
                    total_annual_cost_renting ==
                        AnnualCostRenting(rent, rent_increase, inflation, y)
                    annual_savings_housing_costs ==
                        Sub(total_annual_cost_buying, total_annual_cost_renting)
                    reinvest ==
                        Reinvest(total_investment_value_rent_reinvest,
                                 investment_growth, inflation,
                                 annual_savings_housing_costs)
                IN  /\ year' = y
                    /\ total_investment_value_rent_reinvest' = reinvest
                    /\ summary_data' = Append(summary_data,
                          [Year |-> y,
                           AnnualCostOfBuying |-> round(total_annual_cost_buying),
                           EquityInHome |-> round(equity_percent),
                           HomeValue |-> round(thv),
                           InvestmentBuy |-> round(total_investment_value_home),
                           AnnualCostOfRenting |-> round(total_annual_cost_renting),
                           CostSavings |-> round(annual_savings_housing_costs),
                           InvestmentRent |-> round(total_investment_value_rent),
                           InvestmentRentReinvest |-> round(reinvest)])
                    /\ UNCHANGED <<pc, error, raised_in>>
    /\ UNCHANGED <<inputs, cost, monthly_payment, total_monthly_cost_buying, amort,
                   amortization_schedule, macro, summary_df>>

(* utils.py:156-157  return pd.DataFrame(summary_data) *)
SummaryReturn ==
    /\ pc = "summarizing"
    /\ year >= LastYear(loan_term_years)
    /\ summary_df' = summary_data
    /\ pc' = "summary"
    /\ UNCHANGED <<inputs, cost, error, raised_in, monthly_payment, total_monthly_cost_buying, amort,
                   amortization_schedule, macro, year,
                   total_investment_value_rent_reinvest, summary_data>>

Next ==
    \/ CallMonthlyMortgagePayment
    \/ CallMonthlyCostBuying
    \/ CallMonthlyCostBuyingExtended
    \/ AmortizationBegin
    \/ AmortizationPayment
    \/ AmortizationReturn
    \/ SummaryBegin
    \/ SummaryCallInputsOnly
    \/ SummaryYear
    \/ SummaryReturn

Spec == Init /\ [][Next]_vars
(* ------------------------------------------------------------------ *)
(* Properties                                                         *)
(* ------------------------------------------------------------------ *)
\* spec.md section 3: loan_amount > 0, rate >= 0, term >= 1, 0 <= down payment < 100
ValidLoan ==
    /\ Less(Zero, loan_amount)
    /\ interest_rate >= 0
    /\ loan_term_years >= 1
    /\ down_payment >= 0
    /\ down_payment < 100

\* the schedule is computed with the payment of calculate_monthly_mortgage_payment
FormulaPayment == payment_arg = monthly_payment

\* calculate_amortization_schedule has returned its schedule
ScheduleReturned ==
    \/ pc \in {"schedule", "summarizing", "summary"}
    \/ raised_in = "calculate_summary_metrics"

\* streamlit-app.py:279  amortization_schedule["Principal Payment"].sum()
RECURSIVE total_principal_paid(_)
total_principal_paid(sched) ==
    IF sched = <<>> THEN 0
    ELSE Head(sched).PrincipalPayment + total_principal_paid(Tail(sched))

C2_RowNumbering ==
    /\ \A i \in 1 .. Len(schedule) :
          /\ schedule[i].PaymentNumber = i
          /\ schedule[i].Year = ((i - 1) \div 12) + 1
          /\ schedule[i].Month = ((i - 1) % 12) + 1
          /\ schedule[i].Month \in 1 .. 12
          /\ schedule[i].Year \in 1 .. loan_term_years
    /\ ScheduleReturned =>
          /\ Len(amortization_schedule) = loan_term_years * 12
          /\ \A y \in 1 .. loan_term_years :
                Cardinality({i \in 1 .. Len(amortization_schedule) :
                                amortization_schedule[i].Year = y}) = 12

C2_Witness ==
    /\ pc = "schedule"
    /\ loan_term_years = 2
    /\ Len(amortization_schedule) = 24
    /\ amortization_schedule[13].Year = 2
    /\ amortization_schedule[13].Month = 1

\* C3: for a valid loan, from each emitted row to the next the remaining balance
\* never rises and the equity percentage never falls.
C3_Monotone ==
    (ValidLoan /\ FormulaPayment) =>
        \A i \in 1 .. Len(schedule) - 1 :
            /\ schedule[i + 1].RemainingBalance <= schedule[i].RemainingBalance
            /\ Leq(schedule[i].Equity, schedule[i + 1].Equity)

C3_Witness ==
    /\ ValidLoan
    /\ FormulaPayment
    /\ pc = "schedule"
    /\ interest_rate > 0
    /\ \E i \in 1 .. Len(schedule) - 1 :
          /\ schedule[i + 1].RemainingBalance = schedule[i].RemainingBalance
          /\ Less(schedule[i].Equity, schedule[i + 1].Equity)
    /\ \E i \in 1 .. Len(schedule) - 1 :
          schedule[i + 1].RemainingBalance < schedule[i].RemainingBalance

C5_SummaryYears ==
    pc = "summary" =>
        /\ Len(summary_df) = loan_term_years
        /\ \A i \in 1 .. Len(summary_df) : summary_df[i].Year = i

C5_Witness ==
    /\ pc = "summary"
    /\ loan_term_years = 2
    /\ Len(summary_df) = 2
    /\ summary_df[2].Year = 2
\* the compounding factor of the reinvested balance, 1 + (growth + inflation) / 100
ReinvestFactor == Add(One, Div(I(investment_growth + inflation), I(100)))

\* emitted Investment: Rent + Re-invest of year i, recomputed from the emitted
\* value of the year before (the seed before year 1) and the emitted Cost Savings
RecomputedReinvest(i) ==
    Add(Mul(IF i = 1 THEN ReinvestSeed(down_payment, home_cost)
            ELSE I(summary_data[i - 1].InvestmentRentReinvest),
            ReinvestFactor),
        I(summary_data[i].CostSavings))

ReinvestGap(i) ==
    AbsR(Sub(I(summary_data[i].InvestmentRentReinvest), RecomputedReinvest(i)))

\* C6 as stated: for every year > 1 the emitted reinvested value equals the
\* emitted value of the year before times (1 + (growth + inflation)/100) plus the
\* emitted cost savings of the year, exactly.
C6_ExactFoldOnEmitted ==
    \A i \in 2 .. Len(summary_data) :
        I(summary_data[i].InvestmentRentReinvest) = RecomputedReinvest(i)

\* C6 amended: the balance starts at down_payment/100 * home_cost, and the emitted
\* values obey the fold up to the rounding of the emitted fields: within 1 in
\* year 1, and within 1 + (1 + (growth + inflation)/100) / 2 in every later year,
\* whatever the sign of the cost savings.
C6_FoldWithinRounding ==
    /\ pc = "summarizing" /\ year = 0 =>
          total_investment_value_rent_reinvest = ReinvestSeed(down_payment, home_cost)
    /\ \A i \in 1 .. Len(summary_data) :
          Leq(ReinvestGap(i),
              IF i = 1 THEN One ELSE Add(One, Div(ReinvestFactor, I(2))))

C6_Witness ==
    /\ pc = "summary"
    /\ Len(summary_df) >= 2
    /\ investment_growth + inflation > 0
    /\ summary_df[1].CostSavings > 0
    /\ summary_df[2].CostSavings < 0
    /\ Less(Zero, ReinvestGap(2))

\* C7 as stated: with investment growth > 0 and inflation >= 0 the emitted
\* Investment: Rent is strictly increasing in the year, for every down payment
\* in 0..100 and every (positive) home cost.
C7_StrictlyIncreasing ==
    (investment_growth > 0 /\ inflation >= 0 /\ home_cost > 0) =>
        \A i \in 1 .. Len(summary_data) - 1 :
            summary_data[i].InvestmentRent < summary_data[i + 1].InvestmentRent

\* C7 amended: with investment growth > 0, inflation >= 0 and home_cost >= 0 the
\* emitted Investment: Rent never decreases from one year to the next (it stays
\* 0 when the down payment is 0, and rounding can make two years equal); before
\* rounding it is strictly increasing whenever down payment and home cost are > 0.
C7_NonDecreasing ==
    (investment_growth > 0 /\ inflation >= 0 /\ home_cost >= 0) =>
        /\ \A i \in 1 .. Len(summary_data) - 1 :
              summary_data[i].InvestmentRent <= summary_data[i + 1].InvestmentRent
        /\ (down_payment > 0 /\ home_cost > 0) =>
              \A i \in 1 .. Len(summary_data) - 1 :
                  Less(InvestmentValueRent(down_payment, home_cost,
                                           investment_growth, inflation, i),
                       InvestmentValueRent(down_payment, home_cost,
                                           investment_growth, inflation, i + 1))

C7_Witness ==
    /\ pc = "summary"
    /\ investment_growth > 0
    /\ down_payment > 0
    /\ home_cost > 0
    /\ Len(summary_df) >= 2
    /\ summary_df[1].InvestmentRent < summary_df[2].InvestmentRent

\* calculate_amortization_schedule has been called
AmortizationCalled ==
    \/ pc = "amortizing"
    \/ ScheduleReturned
    \/ raised_in = "calculate_amortization_schedule"

\* C8: with a down payment of 100 percent (loan 0, payment 0) the amortization
\* schedule is returned with term_years * 12 rows, each with principal payment 0,
\* interest payment 0 and equity 100 percent.
C8_FullDownPayment ==
    (home_cost > 0 /\ down_payment = 100 /\ AmortizationCalled) =>
        /\ pc # "raised"
        /\ \A i \in 1 .. Len(schedule) :
              /\ schedule[i].PrincipalPayment = 0
              /\ schedule[i].InterestPayment = 0
              /\ schedule[i].Equity = I(100)
        /\ ScheduleReturned => Len(amortization_schedule) = loan_term_years * 12

\* C9: a core function called with a negative loan amount, a term of zero or
\* less, or a down payment of 100 percent or more ends in an error and returns
\* neither a number nor a schedule.
C9_InvalidParameterRejected ==
    /\ (Less(loan_amount, Zero) \/ loan_term_years <= 0) => pc \in {"start", "raised"}
    /\ down_payment >= 100 => ~ScheduleReturned

\* some year of 1..term_years has no row in the schedule handed to the summary
MissingYear ==
    \E y \in 1 .. loan_term_years :
        \A i \in 1 .. Len(schedule_arg) : schedule_arg[i].Year # y

\* calculate_summary_metrics has ended, by returning or by raising
SummaryEnded ==
    /\ summary_call = "with_schedule"
    /\ pc = "summary" \/ raised_in = "calculate_summary_metrics"

\* the equity of the row of year y with the highest payment number
EquityAtYearEnd(y) ==
    LET last == CHOOSE i \in 1 .. Len(schedule_arg) :
                    /\ schedule_arg[i].Year = y
                    /\ \A j \in 1 .. Len(schedule_arg) :
                          schedule_arg[j].Year = y =>
                              schedule_arg[j].PaymentNumber
                                  <= schedule_arg[i].PaymentNumber
    IN  schedule_arg[last].Equity

\* C10: when the schedule handed to the summary lacks the rows of some year of
\* 1..term_years the call ends in an error and returns no rows; otherwise it
\* returns, and the equity of year y is the one of the last row of year y.
C10_InconsistentSchedule ==
    /\ SummaryEnded =>
          /\ MissingYear <=> (pc = "raised" /\ error = "IndexError")
          /\ MissingYear => summary_df = <<>>
          /\ ~MissingYear => pc = "summary" /\ Len(summary_df) = loan_term_years
    /\ \A y \in 1 .. Len(summary_data) :
          summary_data[y].EquityInHome = round(EquityAtYearEnd(y))

\* year 1 was summarised, year 2 has no rows, and no table is returned
C10_Witness ==
    /\ raised_in = "calculate_summary_metrics"
    /\ error = "IndexError"
    /\ Len(summary_data) = 1
    /\ summary_data[1].EquityInHome = round(EquityAtYearEnd(1))
    /\ summary_data[1].EquityInHome < 100
    /\ summary_df = <<>>
\* utils.py:132-157  the rows calculate_summary_metrics returns for a schedule
\* that covers every year, from year y on with the reinvested balance so far
RECURSIVE SummaryWithSchedule(_, _, _)
SummaryWithSchedule(sched, y, balance) ==
    IF y > loan_term_years THEN <<>>
    ELSE LET thv == HomeValue(home_cost, home_price_appreciation, inflation, y)
             equity_percent == EquityOfLastRow(RowsOfYear(sched, y))
             buying == AnnualCostBuying(total_monthly_cost_buying, closing_costs,
                                        home_cost, y)
             renting == AnnualCostRenting(rent, rent_increase, inflation, y)
             savings == Sub(buying, renting)
             reinvest == Reinvest(balance, investment_growth, inflation, savings)
         IN  <<[Year |-> y,
                AnnualCostOfBuying |-> round(buying),
                EquityInHome |-> round(equity_percent),
                HomeValue |-> round(thv),
                InvestmentBuy |-> round(InvestmentValueHome(equity_percent, thv)),
                AnnualCostOfRenting |-> round(renting),
                CostSavings |-> round(savings),
                InvestmentRent |-> round(InvestmentValueRent(down_payment, home_cost,
                                             investment_growth, inflation, y)),
                InvestmentRentReinvest |-> round(reinvest)]>>
             \o SummaryWithSchedule(sched, y + 1, reinvest)

\* C11: called with the ten assumption inputs only, the summary recomputes the
\* schedule itself and returns the rows it returns when it is handed the schedule
\* of calculate_amortization_schedule for the same inputs.
C11_BothEntryPoints ==
    summary_call = "inputs_only" =>
        /\ pc # "raised"
        /\ pc = "summary" =>
              summary_df = SummaryWithSchedule(amortization_schedule, 1,
                                               ReinvestSeed(down_payment, home_cost))
\* monthly_payment + home_cost * 0.01 / 12 + home_cost * 0.009 / 12 + 200
ExpectedMonthlyCost ==
    Add(Add(Add(monthly_payment, Div(Mul(I(home_cost), <<1, 100>>), I(12))),
            Div(Mul(I(home_cost), <<9, 1000>>), I(12))),
        I(200))

\* C12: without the detail flag the monthly cost of buying is the total
\* monthly_payment + home_cost*0.01/12 + home_cost*0.009/12 + 200; with the
\* detail flag the call returns that total together with its three components,
\* and the components plus the mortgage payment add up to the total.
C12_TwoResultShapes ==
    /\ cost_call = "total" => total_monthly_cost_buying = ExpectedMonthlyCost
    /\ cost_call = "extended" =>
          /\ pc # "raised"
          /\ total_monthly_cost_buying = ExpectedMonthlyCost
          /\ Len(cost_breakdown) = 3
          /\ Add(Add(Add(monthly_payment, cost_breakdown[1]), cost_breakdown[2]),
                 cost_breakdown[3]) = total_monthly_cost_buying
\* C13: closing costs are charged in year 1 only: the annual cost of buying of
\* year 1 is total_monthly_cost_buying * 12 + closing_costs/100 * home_cost, and
\* the one of every later year is total_monthly_cost_buying * 12, the same in
\* all of them (each emitted rounded to the whole unit).
C13_ClosingCostsYearOne ==
    LET yearly == Mul(total_monthly_cost_buying, I(12))
        closing == Mul(Div(I(closing_costs), I(100)), I(home_cost))
    IN  /\ \A i \in 1 .. Len(summary_data) :
              summary_data[i].AnnualCostOfBuying
                  = round(IF i = 1 THEN Add(yearly, closing) ELSE yearly)
        /\ \A i, j \in 2 .. Len(summary_data) :
              summary_data[i].AnnualCostOfBuying = summary_data[j].AnnualCostOfBuying

C13_Witness ==
    /\ pc = "summary"
    /\ loan_term_years = 3
    /\ closing_costs > 0
    /\ home_cost > 0
    /\ Len(summary_df) = 3
    /\ summary_df[1].AnnualCostOfBuying > summary_df[2].AnnualCostOfBuying
    /\ summary_df[2].AnnualCostOfBuying = summary_df[3].AnnualCostOfBuying
\* the locals of calculate_amortization_schedule hold the state after a payment
AfterPayment ==
    /\ payment_number >= 1
    /\ \/ pc = "amortizing"
       \/ ScheduleReturned
       \/ raised_in = "calculate_amortization_schedule"

\* C14: after every payment, whatever monthly payment the caller passes, equity
\* plus remaining balance equals total_home_value = loan_amount /
\* (1 - down_payment/100), so the equity percentage of the row just emitted is
\* (total_home_value - remaining_balance) / total_home_value * 100, rounded to
\* two decimals.
C14_Conservation ==
    AfterPayment =>
        /\ total_home_value = Div(loan_amount, Sub(One, Div(I(down_payment), I(100))))
        /\ Add(equity, remaining_balance) = total_home_value
        /\ Len(schedule) = payment_number =>
              schedule[payment_number].Equity
                  = round2(Mul(Div(Sub(total_home_value, remaining_balance),
                                   total_home_value), I(100)))

C14_Witness ==
    /\ pc = "amortizing"
    /\ payment_arg # monthly_payment
    /\ payment_number >= 2
    /\ Len(schedule) = payment_number
    /\ down_payment > 0
    /\ interest_rate > 0
    /\ Less(Zero, remaining_balance)
====
